---- MODULE Spec2Model ----
(***************************************************************************)
(* The padded-blocks rule (lib/rules/padded-blocks.js): for every          *)
(* non-empty BlockStatement and SwitchStatement the rule decides whether   *)
(* the first and the last content of the block are separated from the      *)
(* braces by a blank line, and reports against the configured policy.      *)
(*                                                                         *)
(* A token is referred to by its index in the token-and-comment sequence   *)
(* of the source code; lines are 1-based, columns 0-based.                 *)
(***************************************************************************)
EXTENDS Integers, Sequences, FiniteSets, TLC

VARIABLES
    tokens,          \* sourceCode: the tokens and comments, in source order
    nodes,           \* the BlockStatement / SwitchStatement nodes of the tree
    options,         \* context.options
    requirePadding,  \* the closure variable set when the rule is created
    pending,         \* the nodes the traversal has still to hand to the rule
    reports,         \* the calls of context.report, in order
    checked,         \* the nodes checkPadding was called with
    threw            \* a visitor ended with a TypeError (navigator returned null)

vars == <<tokens, nodes, options, requirePadding, pending, reports, checked, threw>>

----------------------------------------------------------------------------
(* Bounds of the explored inputs *)

MaxLine == 5        \* the source text has at most this many lines
MaxComments == 2    \* comments between the braces of the commented block

----------------------------------------------------------------------------
(* The source texts explored: token layouts of one block or switch, with    *)
(* comments after the opening and before the closing brace, and of a block  *)
(* nested in a block or in a case.                                          *)

CommentTypes == {"Line", "Block"}

\* the gaps (lines advanced from the end of the previous token) and spans
\* (lines a token extends over) a token of a type may take in `budget` lines;
\* nothing follows a line comment on its line
ItemsFor(type, budget, prev) ==
    { [type |-> type, gap |-> g, span |-> s] :
        <<g, s>> \in { gs \in (0..budget) \X (0..budget) :
                         /\ gs[1] + gs[2] <= budget
                         /\ (type # "Block" => gs[2] = 0)
                         /\ (prev = "Line" => gs[1] >= 1)
                         /\ (prev = "" => gs[1] = 0) } }

RECURSIVE Lay(_, _, _)
Lay(types, budget, prev) ==
    IF types = <<>> THEN { <<>> }
    ELSE UNION { { <<it>> \o rest :
                     rest \in Lay(Tail(types), budget - it.gap - it.span, it.type) } :
                 it \in ItemsFor(Head(types), budget, prev) }

RECURSIVE PlaceFrom(_, _, _, _)
PlaceFrom(items, i, line, col) ==
    IF i > Len(items) THEN <<>>
    ELSE LET it == items[i]
             sl == line + it.gap
             sc == IF i = 1 \/ it.gap > 0 THEN 0 ELSE col + 1
             el == sl + it.span
             ec == IF it.span = 0 THEN sc + 1 ELSE 1
         IN  << [type |-> it.type,
                 loc  |-> [start |-> [line |-> sl, column |-> sc],
                           end   |-> [line |-> el, column |-> ec]]] >>
             \o PlaceFrom(items, i + 1, el, ec)

Place(items) == PlaceFrom(items, 1, 1, 0)

Elem(i, j) == [first |-> i, last |-> j]

BlockShape(top, bot) ==
    LET types == <<"Punctuator">> \o top \o <<"Identifier">> \o bot \o <<"Punctuator">>
        b == Len(top) + 2
    IN  [types |-> types,
         nodes |-> { [type |-> "BlockStatement", first |-> 1, last |-> Len(types),
                      body |-> << Elem(b, b) >>, cases |-> <<>>] }]

SwitchShape(top, bot) ==
    LET types == <<"Keyword", "Punctuator">> \o top \o <<"Keyword">> \o bot
                 \o <<"Punctuator">>
        b == Len(top) + 3
    IN  [types |-> types,
         nodes |-> { [type |-> "SwitchStatement", first |-> 1, last |-> Len(types),
                      body |-> <<>>, cases |-> << Elem(b, b) >>] }]

EmptyBlockShape(cs) ==
    LET types == <<"Punctuator">> \o cs \o <<"Punctuator">>
    IN  [types |-> types,
         nodes |-> { [type |-> "BlockStatement", first |-> 1, last |-> Len(types),
                      body |-> <<>>, cases |-> <<>>] }]

EmptySwitchShape(cs) ==
    LET types == <<"Keyword", "Punctuator">> \o cs \o <<"Punctuator">>
    IN  [types |-> types,
         nodes |-> { [type |-> "SwitchStatement", first |-> 1, last |-> Len(types),
                      body |-> <<>>, cases |-> <<>>] }]

\* { { } }   { { x } }   switch { case { } }   switch { case { x } }
NestedShape(outer, innerEmpty) ==
    LET pre   == IF outer = "SwitchStatement"
                 THEN <<"Keyword", "Punctuator", "Keyword">> ELSE <<"Punctuator">>
        inner == IF innerEmpty THEN <<"Punctuator", "Punctuator">>
                 ELSE <<"Punctuator", "Identifier", "Punctuator">>
        types == pre \o inner \o <<"Punctuator">>
        i1    == Len(pre) + 1
        i2    == Len(pre) + Len(inner)
        el    == IF outer = "SwitchStatement" THEN Elem(i1 - 1, i2) ELSE Elem(i1, i2)
    IN  [types |-> types,
         nodes |-> { [type |-> outer, first |-> 1, last |-> Len(types),
                      body  |-> IF outer = "SwitchStatement" THEN <<>> ELSE << el >>,
                      cases |-> IF outer = "SwitchStatement" THEN << el >> ELSE <<>>],
                     [type |-> "BlockStatement", first |-> i1, last |-> i2,
                      body |-> IF innerEmpty THEN <<>> ELSE << Elem(i1 + 1, i1 + 1) >>,
                      cases |-> <<>>] }]

Shapes ==
    UNION { UNION { { BlockShape(top, bot), SwitchShape(top, bot) } :
                      <<top, bot>> \in [1..kt -> CommentTypes] \X [1..kb -> CommentTypes] } :
            <<kt, kb>> \in { k \in (0..MaxComments) \X (0..MaxComments) :
                               k[1] + k[2] <= MaxComments } }
    \cup UNION { { EmptyBlockShape(cs), EmptySwitchShape(cs) } :
                 cs \in UNION { [1..k -> CommentTypes] : k \in 0..MaxComments } }
    \cup { NestedShape(o, e) : o \in {"BlockStatement", "SwitchStatement"},
                               e \in BOOLEAN }

\* the node as the parser hands it over: its location is that of its tokens
NodeAt(sc, n) ==
    [type |-> n.type, first |-> n.first, last |-> n.last,
     body |-> n.body, cases |-> n.cases,
     loc |-> [start |-> sc[n.first].loc.start, end |-> sc[n.last].loc.end]]

\* context.options: nothing configured, or one of the schema's values
Options == { <<>>, <<"always">>, <<"never">> }

----------------------------------------------------------------------------
(* The source code object *)

NoToken == 0    \* null: there is no such token

getFirstToken(sc, node) == node.first

getLastToken(sc, node) == node.last

getTokenOrCommentAfter(sc, i) == IF i < Len(sc) THEN i + 1 ELSE NoToken

getTokenOrCommentBefore(sc, i) == IF i > 1 THEN i - 1 ELSE NoToken

\* the token before a node, comments not counted
getTokenBefore(sc, i) ==
    LET before == { j \in 1..(i - 1) : sc[j].type \notin CommentTypes }
    IN  IF before = {} THEN NoToken
        ELSE CHOOSE j \in before : \A k \in before : k <= j

----------------------------------------------------------------------------
(* The rule *)

ALWAYS_MESSAGE == "Block must be padded by blank lines."
NEVER_MESSAGE == "Block must not be padded by blank lines."

isComment(tok) == tok.type = "Line" \/ tok.type = "Block"

Option0(opts) == IF Len(opts) >= 1 THEN opts[1] ELSE "undefined"

\* context.options[0] === "always"
RequirePaddingOnlyAlways(opts) == Option0(opts) = "always"

RequirePadding(opts) == Option0(opts) # "never"

getOpenBrace(sc, node) ==
    IF node.type = "SwitchStatement"
    THEN IF Len(node.cases) = 0 THEN NoToken
         ELSE getTokenBefore(sc, node.cases[1].first)
    ELSE getFirstToken(sc, node)

\* if, not while: one comment at most is passed over
TopWalkOnce(sc, first, blockStart) ==
    LET next == getTokenOrCommentAfter(sc, first)
    IN  IF next = NoToken THEN NoToken
        ELSE IF isComment(sc[next]) /\ sc[next].loc.start.line = blockStart
             THEN getTokenOrCommentAfter(sc, next)
             ELSE next

\* while (isComment(first)): comments on later lines are passed over too
RECURSIVE TopWalkAnyComment(_, _, _)
TopWalkAnyComment(sc, first, blockStart) ==
    LET next == getTokenOrCommentAfter(sc, first)
    IN  IF next = NoToken THEN NoToken
        ELSE IF isComment(sc[next])
             THEN TopWalkAnyComment(sc, next, blockStart)
             ELSE next

\* do { first = getTokenOrCommentAfter(first) }
\* while (isComment(first) && first.loc.start.line === blockStart)
RECURSIVE TopWalk(_, _, _)
TopWalk(sc, first, blockStart) ==
    LET next == getTokenOrCommentAfter(sc, first)
    IN  IF next = NoToken THEN NoToken
        ELSE IF isComment(sc[next]) /\ sc[next].loc.start.line = blockStart
             THEN TopWalk(sc, next, blockStart)
             ELSE next

\* the token `first` of isBlockTopPadded, NoToken when the walk runs off the source
TopFirst(sc, node) ==
    LET openBrace == getOpenBrace(sc, node)
    IN  IF openBrace = NoToken THEN NoToken
        ELSE TopWalk(sc, openBrace, sc[openBrace].loc.start.line)

\* expectedFirstLine = blockStart + 1
isBlockTopPaddedNextLine(sc, node) ==
    LET openBrace == getOpenBrace(sc, node)
        blockStart == sc[openBrace].loc.start.line
        expectedFirstLine == blockStart + 1
        first == TopFirst(sc, node)
        firstLine == sc[first].loc.start.line
    IN  expectedFirstLine <= firstLine

isBlockTopPadded(sc, node) ==
    LET openBrace == getOpenBrace(sc, node)
        blockStart == sc[openBrace].loc.start.line
        expectedFirstLine == blockStart + 2
        first == TopFirst(sc, node)
        firstLine == sc[first].loc.start.line
    IN  expectedFirstLine <= firstLine

\* while (last.loc.end.line === blockEnd): code on the brace's line is passed over
RECURSIVE BottomWalkSameLine(_, _, _)
BottomWalkSameLine(sc, last, blockEnd) ==
    LET prev == getTokenOrCommentBefore(sc, last)
    IN  IF prev = NoToken THEN NoToken
        ELSE IF sc[prev].loc.end.line = blockEnd
             THEN BottomWalkSameLine(sc, prev, blockEnd)
             ELSE prev

RECURSIVE BottomWalk(_, _, _)
BottomWalk(sc, last, blockEnd) ==
    LET prev == getTokenOrCommentBefore(sc, last)
    IN  IF prev = NoToken THEN NoToken
        ELSE IF isComment(sc[prev]) /\ sc[prev].loc.end.line = blockEnd
             THEN BottomWalk(sc, prev, blockEnd)
             ELSE prev

\* the token `last` of isBlockBottomPadded
BottomLast(sc, node) ==
    LET closeBrace == getLastToken(sc, node)
    IN  BottomWalk(sc, closeBrace, sc[closeBrace].loc.end.line)

\* lastLine = last.loc.start.line
isBlockBottomPaddedStartLine(sc, node) ==
    LET closeBrace == getLastToken(sc, node)
        blockEnd == sc[closeBrace].loc.end.line
        expectedLastLine == blockEnd - 2
        last == BottomLast(sc, node)
        lastLine == sc[last].loc.start.line
    IN  lastLine <= expectedLastLine

isBlockBottomPadded(sc, node) ==
    LET closeBrace == getLastToken(sc, node)
        blockEnd == sc[closeBrace].loc.end.line
        expectedLastLine == blockEnd - 2
        last == BottomLast(sc, node)
        lastLine == sc[last].loc.end.line
    IN  lastLine <= expectedLastLine

\* a report of the node alone carries no location of its own
NodeReport(node, message) == [node |-> node, loc |-> <<>>, message |-> message]

\* column: node.loc.end.column
EndReportEndColumn(node, message) ==
    [node |-> node,
     loc |-> << [line |-> node.loc.end.line, column |-> node.loc.end.column] >>,
     message |-> message]

EndReport(node, message) ==
    [node |-> node,
     loc |-> << [line |-> node.loc.end.line, column |-> node.loc.end.column - 1] >>,
     message |-> message]

\* the reports checkPadding makes, in order
checkPadding(sc, node, require) ==
    LET blockHasTopPadding == isBlockTopPadded(sc, node)
        blockHasBottomPadding == isBlockBottomPadded(sc, node)
    IN  IF require
        THEN (IF ~blockHasTopPadding THEN << NodeReport(node, ALWAYS_MESSAGE) >> ELSE <<>>)
             \o (IF ~blockHasBottomPadding THEN << EndReport(node, ALWAYS_MESSAGE) >>
                 ELSE <<>>)
        ELSE (IF blockHasTopPadding THEN << NodeReport(node, NEVER_MESSAGE) >> ELSE <<>>)
             \o (IF blockHasBottomPadding THEN << EndReport(node, NEVER_MESSAGE) >>
                 ELSE <<>>)

\* isComment(null) is a TypeError
Throws(sc, node) == TopFirst(sc, node) = NoToken \/ BottomLast(sc, node) = NoToken

\* reports are made only while none has been made
CallCheckPaddingFirstOnly(node) ==
    /\ checked' = checked \cup {node}
    /\ IF Throws(tokens, node)
       THEN threw' = TRUE /\ UNCHANGED reports
       ELSE /\ reports' = IF reports = <<>>
                          THEN checkPadding(tokens, node, requirePadding)
                          ELSE reports
            /\ UNCHANGED threw

CallCheckPadding(node) ==
    /\ checked' = checked \cup {node}
    /\ IF Throws(tokens, node)
       THEN threw' = TRUE /\ UNCHANGED reports
       ELSE /\ reports' = reports \o checkPadding(tokens, node, requirePadding)
            /\ UNCHANGED threw

SwitchStatement(node) ==
    /\ ~threw
    /\ node \in pending
    /\ node.type = "SwitchStatement"
    /\ pending' = pending \ {node}
    /\ IF Len(node.cases) = 0
       THEN UNCHANGED <<reports, checked, threw>>
       ELSE CallCheckPadding(node)
    /\ UNCHANGED <<tokens, nodes, options, requirePadding>>

\* the visitor without its test of node.body.length
BlockStatementUnguarded(node) ==
    /\ ~threw
    /\ node \in pending
    /\ node.type = "BlockStatement"
    /\ pending' = pending \ {node}
    /\ CallCheckPadding(node)
    /\ UNCHANGED <<tokens, nodes, options, requirePadding>>

BlockStatement(node) ==
    /\ ~threw
    /\ node \in pending
    /\ node.type = "BlockStatement"
    /\ pending' = pending \ {node}
    /\ IF Len(node.body) = 0
       THEN UNCHANGED <<reports, checked, threw>>
       ELSE CallCheckPadding(node)
    /\ UNCHANGED <<tokens, nodes, options, requirePadding>>

Init ==
    \E s \in Shapes :
      \E items \in Lay(s.types, MaxLine - 1, ""), o \in Options :
        /\ tokens = Place(items)
        /\ nodes = { NodeAt(tokens, n) : n \in s.nodes }
        /\ options = o
        /\ requirePadding = RequirePadding(o)
        /\ pending = nodes
        /\ reports = <<>>
        /\ checked = {}
        /\ threw = FALSE

Next ==
    \/ \E node \in nodes : SwitchStatement(node)
    \/ \E node \in nodes : BlockStatement(node)

Spec == Init /\ [][Next]_vars

----------------------------------------------------------------------------
(* Vocabulary of the properties *)

HasBody(n) == IF n.type = "SwitchStatement" THEN Len(n.cases) > 0 ELSE Len(n.body) > 0

Analysable == { n \in nodes : HasBody(n) }

IsCommentToken(t) == t.type \in CommentTypes

\* the opening delimiter: the first token of a block, the token (not a
\* comment) right before the first case of a switch
OpenDelimiter(n) ==
    IF n.type = "SwitchStatement"
    THEN CHOOSE j \in 1..(n.cases[1].first - 1) :
            /\ ~IsCommentToken(tokens[j])
            /\ \A k \in (j + 1)..(n.cases[1].first - 1) : IsCommentToken(tokens[k])
    ELSE n.first

OpenLine(n) == tokens[OpenDelimiter(n)].loc.start.line

CloseLine(n) == tokens[n.last].loc.end.line

BodyFirst(n) == IF n.type = "SwitchStatement" THEN n.cases[1].first ELSE n.body[1].first

BodyLast(n) ==
    IF n.type = "SwitchStatement" THEN n.cases[Len(n.cases)].last
    ELSE n.body[Len(n.body)].last

Least(S) == CHOOSE j \in S : \A k \in S : j <= k

Greatest(S) == CHOOSE j \in S : \A k \in S : k <= j

\* the candidates for `first`: what follows the opening delimiter and is not
\* a comment starting on its line
FirstCandidates(n) ==
    { j \in (OpenDelimiter(n) + 1)..Len(tokens) :
        ~(IsCommentToken(tokens[j]) /\ tokens[j].loc.start.line = OpenLine(n)) }

\* the candidates for `last`: what precedes the closing delimiter and is not
\* a comment ending on its line
LastCandidates(n) ==
    { j \in 1..(n.last - 1) :
        ~(IsCommentToken(tokens[j]) /\ tokens[j].loc.end.line = CloseLine(n)) }

ReportsIn(rs, n) == SelectSeq(rs, LAMBDA r : r.node = n)

TopReports(n) == SelectSeq(ReportsIn(reports, n), LAMBDA r : r.loc = <<>>)

BottomReports(n) == SelectSeq(ReportsIn(reports, n), LAMBDA r : r.loc # <<>>)

PolicyNever == Len(options) > 0 /\ options[1] = "never"

PolicyMessage ==
    IF PolicyNever THEN "Block must not be padded by blank lines."
    ELSE "Block must be padded by blank lines."

EdgeViolated(padded) == (~PolicyNever /\ ~padded) \/ (PolicyNever /\ padded)

Count(b) == IF b THEN 1 ELSE 0

----------------------------------------------------------------------------
\* C1: an analysed node gets a diagnostic for an edge exactly when the policy
\* is violated at that edge (ALWAYS and not padded, or NEVER and padded), the
\* policy being NEVER only for the option "never"; at most one diagnostic per
\* edge, each with the message of the active policy.
C1_DiagnosticsMatchPolicy ==
    \A n \in nodes :
        IF n \in checked
        THEN /\ Len(TopReports(n)) = Count(EdgeViolated(isBlockTopPadded(tokens, n)))
             /\ Len(BottomReports(n)) = Count(EdgeViolated(isBlockBottomPadded(tokens, n)))
             /\ \A i \in 1..Len(ReportsIn(reports, n)) :
                    ReportsIn(reports, n)[i].message = PolicyMessage
        ELSE ReportsIn(reports, n) = <<>>

C1_Witness ==
    /\ options = <<>>
    /\ \E n \in checked :
          /\ ~isBlockTopPadded(tokens, n)
          /\ isBlockBottomPadded(tokens, n)
          /\ Len(ReportsIn(reports, n)) = 1

\* C2: isBlockTopPadded is true exactly when the first token or comment after
\* the opening delimiter that is not a comment starting on the delimiter's
\* line starts at least two lines below the delimiter.
C2_TopPaddedCharacterised ==
    \A n \in checked :
        /\ FirstCandidates(n) # {}
        /\ isBlockTopPadded(tokens, n)
             = (tokens[Least(FirstCandidates(n))].loc.start.line >= OpenLine(n) + 2)

C2_Witness ==
    \E n \in checked :
        /\ isBlockTopPadded(tokens, n)
        /\ Least(FirstCandidates(n)) >= OpenDelimiter(n) + 3

\* the source read backwards: the order of the tokens reversed, start and end
\* of each swapped and negated
Reflect(sc) ==
    [ i \in 1..Len(sc) |->
        LET t == sc[Len(sc) + 1 - i]
        IN  [type |-> t.type,
             loc |-> [start |-> [line |-> 0 - t.loc.end.line,
                                 column |-> 0 - t.loc.end.column],
                      end   |-> [line |-> 0 - t.loc.start.line,
                                 column |-> 0 - t.loc.start.column]]] ]

\* the block of the reflected source that opens where n closes
MirrorNode(n) ==
    LET m == Len(tokens) + 1
    IN  [type |-> "BlockStatement", first |-> m - n.last, last |-> m - OpenDelimiter(n),
         body |-> << Elem(m - BodyLast(n), m - BodyFirst(n)) >>, cases |-> <<>>,
         loc |-> [start |-> [line |-> 0 - n.loc.end.line,
                             column |-> 0 - n.loc.end.column],
                  end |-> [line |-> 0 - tokens[OpenDelimiter(n)].loc.start.line,
                           column |-> 0 - tokens[OpenDelimiter(n)].loc.start.column]]]

\* C3: isBlockBottomPadded is true exactly when the last token or comment
\* before the closing delimiter that is not a comment ending on the
\* delimiter's line ends at least two lines above the delimiter; it is
\* isBlockTopPadded of the source read backwards.
C3_BottomMirrorsTop ==
    \A n \in checked :
        /\ LastCandidates(n) # {}
        /\ isBlockBottomPadded(tokens, n)
             = (tokens[Greatest(LastCandidates(n))].loc.end.line <= CloseLine(n) - 2)
        /\ isBlockBottomPadded(tokens, n)
             = isBlockTopPadded(Reflect(tokens), MirrorNode(n))

C3_Witness ==
    \E n \in checked :
        /\ isBlockBottomPadded(tokens, n)
        /\ Greatest(LastCandidates(n)) <= n.last - 2
        /\ \E j \in (Greatest(LastCandidates(n)) + 1)..(n.last - 1) :
              tokens[j].loc.start.line < tokens[j].loc.end.line

\* C4: a block without statements and a switch without cases is never passed
\* to checkPadding and gets no diagnostic, whatever the policy and the order
\* of the visits.
C4_EmptyNeverAnalysed ==
    \A n \in nodes :
        ~HasBody(n) => (n \notin checked /\ ReportsIn(reports, n) = <<>>)

C4_Witness ==
    \E n \in nodes, m \in checked :
        /\ ~HasBody(n)
        /\ n \notin pending
        /\ Len(reports) > 0

Covered(l) ==
    \E i \in 1..Len(tokens) :
        tokens[i].loc.start.line <= l /\ l <= tokens[i].loc.end.line

\* C5: when an edge is found padded, some line strictly between the line of
\* the delimiter and the line of the first (last) substantive token holds no
\* token and no comment.
C5_GenuineBlankLine ==
    \A n \in checked :
        ~threw =>
          /\ isBlockTopPadded(tokens, n) =>
                \E l \in (OpenLine(n) + 1)..(tokens[TopFirst(tokens, n)].loc.start.line - 1) :
                    ~Covered(l)
          /\ isBlockBottomPadded(tokens, n) =>
                \E l \in (tokens[BottomLast(tokens, n)].loc.end.line + 1)..(CloseLine(n) - 1) :
                    ~Covered(l)

\* the comments right after the opening delimiter that start on its line
TopRun(n) ==
    { j \in (OpenDelimiter(n) + 1)..Len(tokens) :
        \A k \in (OpenDelimiter(n) + 1)..j :
            IsCommentToken(tokens[k]) /\ tokens[k].loc.start.line = OpenLine(n) }

\* the comments right before the closing delimiter that end on its line
BottomRun(n) ==
    { j \in 1..(n.last - 1) :
        \A k \in j..(n.last - 1) :
            IsCommentToken(tokens[k]) /\ tokens[k].loc.end.line = CloseLine(n) }

\* the source without the tokens at the places R, and a node of it
Without(sc, R) ==
    LET kept[i \in 0..Len(sc)] ==
            IF i = 0 THEN <<>>
            ELSE IF i \in R THEN kept[i - 1] ELSE Append(kept[i - 1], sc[i])
    IN  kept[Len(sc)]

Shift(i, R) == i - Cardinality({ j \in R : j < i })

NodeWithout(n, R) ==
    [type |-> n.type, first |-> Shift(n.first, R), last |-> Shift(n.last, R),
     body |-> [ k \in DOMAIN n.body |->
                  Elem(Shift(n.body[k].first, R), Shift(n.body[k].last, R)) ],
     cases |-> [ k \in DOMAIN n.cases |->
                  Elem(Shift(n.cases[k].first, R), Shift(n.cases[k].last, R)) ],
     loc |-> n.loc]

\* the source with the comment at place j turned into a code token
AsCode(sc, j) == [sc EXCEPT ![j].type = "Identifier"]

\* C6: removing the comments next to a delimiter on the delimiter's line
\* leaves the result for that edge unchanged; a comment on another line that
\* comes first after (last before) the delimiter is `first` (`last`), its
\* line decides the result, as it would were it a code token.
C6_SameLineCommentsTransparent ==
    \A n \in checked :
        LET f == Least((OpenDelimiter(n) + 1..Len(tokens)) \ TopRun(n))
            l == Greatest((1..n.last - 1) \ BottomRun(n))
        IN  /\ isBlockTopPadded(Without(tokens, TopRun(n)), NodeWithout(n, TopRun(n)))
                 = isBlockTopPadded(tokens, n)
            /\ isBlockBottomPadded(Without(tokens, BottomRun(n)),
                                   NodeWithout(n, BottomRun(n)))
                 = isBlockBottomPadded(tokens, n)
            /\ IsCommentToken(tokens[f]) =>
                 /\ TopFirst(tokens, n) = f
                 /\ isBlockTopPadded(tokens, n)
                      = (tokens[f].loc.start.line >= OpenLine(n) + 2)
                 /\ n.type = "BlockStatement" =>
                      isBlockTopPadded(AsCode(tokens, f), n) = isBlockTopPadded(tokens, n)
            /\ IsCommentToken(tokens[l]) =>
                 /\ BottomLast(tokens, n) = l
                 /\ isBlockBottomPadded(tokens, n)
                      = (tokens[l].loc.end.line <= CloseLine(n) - 2)
                 /\ isBlockBottomPadded(AsCode(tokens, l), n)
                      = isBlockBottomPadded(tokens, n)

C6_Witness ==
    \E n \in checked :
        /\ TopRun(n) # {}
        /\ BottomRun(n) = {}
        /\ IsCommentToken(tokens[BottomLast(tokens, n)])
        /\ isBlockTopPadded(tokens, n)
        /\ ~isBlockBottomPadded(tokens, n)

\* C7: a bottom diagnostic is located at the node's end line and end column
\* less one, which is where the closing delimiter stands; a top diagnostic
\* is reported for the node with no location of its own.
C7_ReportLocations ==
    /\ \A i \in 1..Len(reports) :
          reports[i].loc \in
              { <<>>, << [line |-> reports[i].node.loc.end.line,
                          column |-> reports[i].node.loc.end.column - 1] >> }
    /\ \A n \in checked :
          ~threw =>
            /\ EdgeViolated(isBlockTopPadded(tokens, n))
                 <=> \E i \in 1..Len(reports) :
                        reports[i].node = n /\ reports[i].loc = <<>>
            /\ EdgeViolated(isBlockBottomPadded(tokens, n))
                 <=> \E i \in 1..Len(reports) :
                        /\ reports[i].node = n
                        /\ reports[i].loc = << [line |-> tokens[n.last].loc.start.line,
                                                column |-> tokens[n.last].loc.start.column] >>

C7_Witness ==
    \E n \in checked :
        /\ Len(ReportsIn(reports, n)) = 2
        /\ n.loc.end.column > 1
        /\ n.loc.end.line > n.loc.start.line

\* C8: neither walk asks for a token beyond the source: the forward walk
\* stops after the opening delimiter, at or before the first token of the
\* first body element, the backward walk before the closing delimiter, at or
\* after the last token of the last body element.
C8_WalksStayInside ==
    /\ ~threw
    /\ \A n \in checked :
          /\ TopFirst(tokens, n) # NoToken
          /\ OpenDelimiter(n) < TopFirst(tokens, n)
          /\ TopFirst(tokens, n) <= BodyFirst(n)
          /\ BottomLast(tokens, n) # NoToken
          /\ BodyLast(n) <= BottomLast(tokens, n)
          /\ BottomLast(tokens, n) < n.last

C8_Witness ==
    \E n \in checked :
        /\ CloseLine(n) = OpenLine(n)
        /\ TopFirst(tokens, n) = BodyFirst(n)
        /\ BodyFirst(n) > OpenDelimiter(n) + 1
        /\ BottomLast(tokens, n) = BodyLast(n)
        /\ BodyLast(n) < n.last - 1

\* the diagnostics of a node, from the source and the configuration alone
DiagnosticsOf(n) == checkPadding(tokens, n, ~PolicyNever)

\* C9: a visit changes neither the policy nor the tokens nor the tree, and
\* after it every node visited so far has the diagnostics that the node, the
\* source and the policy determine, whatever was visited before it.
C9_Stateless ==
    [][ /\ tokens' = tokens
        /\ nodes' = nodes
        /\ options' = options
        /\ requirePadding' = requirePadding
        /\ \A n \in nodes :
              ReportsIn(reports', n)
                = IF n \in Analysable \ pending' THEN DiagnosticsOf(n) ELSE <<>> ]_vars

C9_Witness ==
    /\ pending = {}
    /\ Cardinality(checked) = 2
    /\ Len(reports) >= 3
    /\ reports[1].node.first > 1
    /\ reports[Len(reports)].node.first = 1

\* C10: both edges are padded only if the closing delimiter ends at least
\* four lines below the start of the opening one; so under "always" a node
\* of fewer than five lines gets a diagnostic, and under "never" a node whose
\* delimiters are fewer than two lines apart gets none.
C10_EdgesNeedFiveLines ==
    /\ \A n \in checked :
          (isBlockTopPadded(tokens, n) /\ isBlockBottomPadded(tokens, n))
             => CloseLine(n) - OpenLine(n) >= 4
    /\ \A n \in checked :
          /\ (~PolicyNever /\ n.loc.end.line - n.loc.start.line + 1 < 5)
                => Len(ReportsIn(reports, n)) >= 1
          /\ (PolicyNever /\ CloseLine(n) - OpenLine(n) < 2)
                => ReportsIn(reports, n) = <<>>

C10_Witness ==
    \E n \in checked :
        /\ isBlockTopPadded(tokens, n)
        /\ isBlockBottomPadded(tokens, n)
        /\ CloseLine(n) - OpenLine(n) = 4
        /\ TopRun(n) # {}

====
